---- MODULE Spec2Model ----
(***************************************************************************)
(* Model of crazerace-py: the instrumented RPC client (crazerace/http/     *)
(* rpc.py), its endpoint sanitizer, the token codec (crazerace/jwt) and    *)
(* the secured-handler decorator (crazerace/http/security.py).             *)
(*                                                                         *)
(* Strings whose characters matter (URLs, bodies) are sequences of         *)
(* one-character strings, so that regular-expression substitution and JSON *)
(* encoding are computed character by character as the code does.          *)
(***************************************************************************)
EXTENDS Integers, Sequences, FiniteSets, TLC

VARIABLES
    \* endpoint sanitizer harness
    sUrl,       \* the url handed to _sanitize_endpoint
    sOnce,      \* _sanitize_endpoint(sUrl)
    sTwice,     \* _sanitize_endpoint(sOnce)
    sPc,        \* "in" | "once" | "twice"
    \* token codec harness
    clock,      \* true time, integer seconds since the epoch (UTC)
    tz,         \* UTC offset of the process's local time zone, seconds east
    token,      \* the encoded token at hand, or Nil
    minted,     \* how create_token made it: [sub, role, expiry, at], or Nil
    verdict,    \* what decode returned or raised, or Nil
    ticks,      \* number of clock advances so far
    jPc,        \* "idle" | "have" | "decoded"
    \* RPC client
    ctx,        \* flask request.id of the in-flight request, or None
    call,       \* arguments of the latest dispatch call, or Nil
    sent,       \* what the latest call handed to the transport, or Nil
    resp,       \* how the transport attempt of the latest call ended, or Nil
    result,     \* what the latest call returned or raised, or Nil
    log,        \* log lines of the latest call, in order
    RPCS_TOTAL, \* counter: label triple -> number of increments
    RPC_LATENCY,\* histogram: label triple -> number of observations
    calls,      \* number of dispatch calls so far
    rPc,        \* "idle" | "done"
    \* secured handler
    req,        \* the flask request: its Authorization header and the
                \* attributes set on it
    guard,      \* arguments of secured: [secret, roles], or Nil
    handler_ran,\* the wrapped handler f was invoked
    raised,     \* the exception decorated raised, or Nil
    aPc         \* "idle" | "done"

sanVars == <<sUrl, sOnce, sTwice, sPc>>
jwtVars == <<clock, tz, token, minted, verdict, ticks, jPc>>
rpcVars == <<ctx, call, sent, resp, result, log, RPCS_TOTAL, RPC_LATENCY, calls, rPc>>
secVars == <<req, guard, handler_ran, raised, aPc>>
vars == <<sanVars, jwtVars, rpcVars, secVars>>

\* Python's None, where a string is expected and where an object is expected
None == "None"
Nil == [ kind |-> "None" ]

(***************************************************************************)
(* Bounds                                                                  *)
(***************************************************************************)
\* number of pieces concatenated into a url for the sanitizer
MaxPieces == 3
\* number of clock advances between minting and verifying a token
MaxTicks == 2
\* number of dispatch calls in a sequence of calls to one endpoint
MaxCalls == 3
\* the clock reading at start
Epoch0 == 1600000000

(***************************************************************************)
(* Each harness leaves the state of the others at rest                     *)
(***************************************************************************)
SanIdle ==
    /\ sUrl = <<>>
    /\ sOnce = <<>>
    /\ sTwice = <<>>
    /\ sPc = "in"

EmptyMetric == [ l \in {} |-> 0 ]

RpcIdle ==
    /\ ctx = None
    /\ call = Nil
    /\ sent = Nil
    /\ resp = Nil
    /\ result = Nil
    /\ log = <<>>
    /\ RPCS_TOTAL = EmptyMetric
    /\ RPC_LATENCY = EmptyMetric
    /\ calls = 0
    /\ rPc = "idle"

JwtIdle ==
    /\ clock = Epoch0
    /\ tz = 0
    /\ token = Nil
    /\ minted = Nil
    /\ verdict = Nil
    /\ ticks = 0
    /\ jPc = "idle"

\* no attribute has been set on the request
NoAttrs == [ n \in {} |-> "" ]

\* request.headers.get("Authorization") of a request without that header
NoHeader == [ t |-> "NoneType" ]

SecIdle ==
    /\ req = [ authorization |-> NoHeader, attrs |-> NoAttrs ]
    /\ guard = Nil
    /\ handler_ran = FALSE
    /\ raised = Nil
    /\ aPc = "idle"

(***************************************************************************)
(* Characters                                                              *)
(***************************************************************************)
Digits == {"0", "1", "2", "3", "4", "5", "6", "7", "8", "9"}

\* the character class [0-9a-f] of the identifier pattern (rpc.py:232)
LowerHex == Digits \cup {"a", "b", "c", "d", "e", "f"}

\* the replacement text "<id>" (rpc.py:233)
IdToken == <<"<", "i", "d", ">">>

\* the replacement text "/<id>" (rpc.py:236)
SlashIdToken == <<"/">> \o IdToken

\* lengths of the five groups of the identifier pattern (rpc.py:232)
UuidGroups == <<8, 4, 4, 4, 12>>

\* positions (0-based) of the four dashes inside a match, and its length
UuidDashOffsets ==
    { UuidGroups[1],
      UuidGroups[1] + 1 + UuidGroups[2],
      UuidGroups[1] + 1 + UuidGroups[2] + 1 + UuidGroups[3],
      UuidGroups[1] + 1 + UuidGroups[2] + 1 + UuidGroups[3] + 1 + UuidGroups[4] }

UuidLen ==
    UuidGroups[1] + UuidGroups[2] + UuidGroups[3] + UuidGroups[4] + UuidGroups[5] + 4

(***************************************************************************)
(* _sanitize_endpoint (rpc.py:229-237)                                     *)
(***************************************************************************)
\* Op applied to the value of v, which is computed once
Let(v, Op(_)) == CHOOSE r \in { Op(x) : x \in { v } } : TRUE

\* least element of a non-empty set of positions
Least(S) == Let(S, LAMBDA T : CHOOSE i \in T : \A j \in T : i <= j)

\* index of the first "?" in s, or Len(s) + 1
FirstQuery(s) == Least({ i \in 1..Len(s) : s[i] = "?" } \cup { Len(s) + 1 })

\* url.split("?")[0]
SplitQuery(url) == Let(url, LAMBDA s : SubSeq(s, 1, FirstQuery(s) - 1))

\* the identifier pattern matches s at position i
UuidAt(s, i) ==
    /\ i + UuidLen - 1 <= Len(s)
    /\ \A k \in 0..(UuidLen - 1) :
          IF k \in UuidDashOffsets THEN s[i + k] = "-" ELSE s[i + k] \in LowerHex

\* re.sub(<identifier pattern>, "<id>", s): the scan takes the leftmost match
\* at or after position i, replaces it and resumes after it
RECURSIVE SubUuidFrom(_, _)
SubUuidFrom(s, i) ==
    LET starts == { j \in i..Len(s) : UuidAt(s, j) }
    IN  IF starts = {} THEN SubSeq(s, i, Len(s))
        ELSE LET j == Least(starts)
             IN  SubSeq(s, i, j - 1) \o IdToken \o SubUuidFrom(s, j + UuidLen)

SubUuid(s) == SubUuidFrom(s, 1)

\* first index >= i of s that is not a decimal digit ([0-9]+ is greedy)
DigitsEnd(s, i) == Least({ j \in i..Len(s) : s[j] \notin Digits } \cup { Len(s) + 1 })

\* the pattern \/[0-9]+ matches s at position i
IntParamAt(s, i) ==
    /\ s[i] = "/"
    /\ i + 1 <= Len(s)
    /\ s[i + 1] \in Digits

\* re.sub(r"\/[0-9]+", "/<id>", s, count): leftmost matches, non-overlapping;
\* count = -1 replaces every match
RECURSIVE SubIntFrom(_, _, _)
SubIntFrom(s, i, count) ==
    LET starts == { j \in i..Len(s) : IntParamAt(s, j) }
    IN  IF count = 0 \/ starts = {} THEN SubSeq(s, i, Len(s))
        ELSE LET j == Least(starts)
             IN  SubSeq(s, i, j - 1) \o SlashIdToken
                    \o SubIntFrom(s, DigitsEnd(s, j + 1), count - 1)

SubIntParamsOnce(s) == SubIntFrom(s, 1, 1)

SubIntParams(s) == SubIntFrom(s, 1, -1)

_sanitize_endpoint(url) ==
    Let(SplitQuery(url), LAMBDA endpoint_without_query :
    Let(SubUuid(endpoint_without_query), LAMBDA endpoint_without_uuid :
    Let(SubIntParams(endpoint_without_uuid), LAMBDA endpoint_without_int_params :
        endpoint_without_int_params)))

(***************************************************************************)
(* Inputs of the sanitizer harness                                         *)
(***************************************************************************)
UuidLower ==
    <<"3", "f", "a", "8", "5", "f", "6", "4", "-", "5", "7", "1", "7", "-",
      "4", "5", "6", "2", "-", "b", "3", "f", "c", "-",
      "2", "c", "9", "6", "3", "f", "6", "6", "a", "f", "a", "6">>

UuidUpper ==
    <<"3", "F", "A", "8", "5", "F", "6", "4", "-", "5", "7", "1", "7", "-",
      "4", "5", "6", "2", "-", "B", "3", "F", "C", "-",
      "2", "C", "9", "6", "3", "F", "6", "6", "A", "F", "A", "6">>

Pieces ==
    { <<"/">>, <<"?">>, <<"1", "2">>, <<"a", "b">>, <<"x">>, <<"/", "7">>,
      UuidLower, UuidUpper }

RECURSIVE Concats(_)
Concats(n) ==
    IF n = 0 THEN { <<>> }
    ELSE LET shorter == Concats(n - 1)
         IN  shorter \cup { p \o u : p \in Pieces, u \in shorter }

SanUrls == Concats(MaxPieces)

(***************************************************************************)
(* Token codec (crazerace/jwt/__init__.py)                                 *)
(***************************************************************************)
DEFAULT_EXPIRY == 24 * 3600
DEFAULT_ALGORITHM == "HS256"

\* seconds by which not_before is backdated (jwt/__init__.py:30)
NBF_BACKDATE == 60

HTTP_400_BAD_REQUEST == 400
HTTP_401_UNAUTHORIZED == 401

\* datetime.timestamp() of a naive datetime: the wall-clock reading is taken
\* as LOCAL time.  A naive datetime is represented by the epoch seconds its
\* reading would denote in UTC.
Timestamp(naive) == naive - tz

\* the signature over a header and payload: determined by key and content
Sign(secret, algorithm, payload) == <<secret, algorithm, payload>>

\* jwt.encode(payload, secret, algorithm)
Encode(payload, secret, algorithm) ==
    [ alg |-> algorithm, payload |-> payload,
      sig |-> Sign(secret, algorithm, payload) ]

\* create_token (jwt/__init__.py:22-39); utcnow1..3 are the three readings of
\* datetime.utcnow()
create_token(sub, role, secret, expiry, algorithm, utcnow1, utcnow2, utcnow3) ==
    LET issued_at == Timestamp(utcnow1)
        not_before == Timestamp(utcnow2 - NBF_BACKDATE)
        expires_at == Timestamp(utcnow3 + expiry)
        payload == [ sub |-> sub, role |-> role, iat |-> issued_at,
                     nbf |-> not_before, exp |-> expires_at ]
    IN  Encode(payload, secret, algorithm)

Has(payload, claim) == claim \in DOMAIN payload

\* jwt.decode(token, secret, algorithms=[algorithm]) of PyJWT 1.7.1 raises a
\* PyJWTError: algorithm not allowed, signature mismatch, nbf > now, exp < now
SignatureOk(t, secret, algorithm) ==
    /\ t.alg = algorithm
    /\ t.sig = Sign(secret, t.alg, t.payload)

WithinWindow(t, now) ==
    /\ Has(t.payload, "nbf") => ~(t.payload.nbf > now)
    /\ Has(t.payload, "exp") => ~(t.payload.exp < now)

BadRequestError == [ kind |-> "BadRequestError", status |-> HTTP_400_BAD_REQUEST ]
UnauthorizedError == [ kind |-> "UnauthorizedError", status |-> HTTP_401_UNAUTHORIZED ]
TokenBody(subject, role) == [ kind |-> "TokenBody", subject |-> subject, role |-> role ]

\* decode (jwt/__init__.py:42-49); now is PyJWT's reading of the clock
decode(t, secret, algorithm, now) ==
    IF ~SignatureOk(t, secret, algorithm) \/ ~WithinWindow(t, now)
    THEN UnauthorizedError
    ELSE IF ~Has(t.payload, "sub") \/ ~Has(t.payload, "role")
    THEN BadRequestError
    ELSE TokenBody(t.payload.sub, t.payload.role)

(***************************************************************************)
(* Token codec harness                                                     *)
(***************************************************************************)
Secret == "secret-1"
OtherSecret == "secret-2"
Subjects == { "", "user-1" }
Roles == { "SYSTEM", "ADMIN" }
Expiries == { DEFAULT_EXPIRY, -1 }
\* local time zones: America/New_York (winter), UTC, Europe/Stockholm (winter)
TzOffsets == { -18000, 0, 3600 }
\* clock advances: a second, the backdating, and the distance from minting
\* at which a not_before shifted by the New York offset is reached
TickSteps == { 1, NBF_BACKDATE, 18000 - NBF_BACKDATE }

\* restriction of a payload to a set of claims
Restrict(f, D) == [ c \in (DOMAIN f) \cap D |-> f[c] ]

\* tokens that did not come from create_token: claims missing, other key,
\* other algorithm, windows before / around / after the current time
ForeignTokens ==
    LET full == [ sub |-> "user-1", role |-> "ADMIN",
                  nbf |-> 0, exp |-> 0 ]
        payloads ==
            { Restrict([ full EXCEPT !.nbf = n, !.exp = e ], D) :
                n \in { clock - 1, clock, clock + 1 },
                e \in { clock - 1, clock, clock + 1 },
                D \in SUBSET { "sub", "role", "nbf", "exp" } }
    IN  { Encode(p, k, a) : p \in payloads, k \in { Secret, OtherSecret },
                            a \in { DEFAULT_ALGORITHM, "HS512" } }

JwtInit ==
    /\ clock = Epoch0
    /\ tz \in TzOffsets
    /\ token = Nil
    /\ minted = Nil
    /\ verdict = Nil
    /\ ticks = 0
    /\ jPc = "idle"
    /\ SanIdle
    /\ RpcIdle
    /\ SecIdle

\* a caller mints a token; the clock may move between the three readings
CreateToken ==
    /\ jPc = "idle"
    /\ \E sub \in Subjects, role \in Roles, expiry \in Expiries, d1, d2 \in 0..1 :
          /\ token' = create_token(sub, role, Secret, expiry, DEFAULT_ALGORITHM,
                                   clock, clock + d1, clock + d1 + d2)
          /\ clock' = clock + d1 + d2
          /\ minted' = [ sub |-> sub, role |-> role, expiry |-> expiry,
                         at |-> clock + d1 + d2 ]
    /\ jPc' = "have"
    /\ UNCHANGED <<tz, verdict, ticks, sanVars, rpcVars, secVars>>

\* a token from elsewhere is presented for verification
PresentToken ==
    /\ jPc = "idle"
    /\ token' \in ForeignTokens
    /\ jPc' = "have"
    /\ minted' = Nil
    /\ UNCHANGED <<clock, tz, verdict, ticks, sanVars, rpcVars, secVars>>

\* time passes
Tick ==
    /\ jPc = "have"
    /\ ticks < MaxTicks
    /\ \E d \in TickSteps : clock' = clock + d
    /\ ticks' = ticks + 1
    /\ UNCHANGED <<tz, token, minted, verdict, jPc, sanVars, rpcVars, secVars>>

\* decode(token, secret) is called
Decode ==
    /\ jPc = "have"
    /\ verdict' = decode(token, Secret, DEFAULT_ALGORITHM, clock)
    /\ jPc' = "decoded"
    /\ UNCHANGED <<clock, tz, token, minted, ticks, sanVars, rpcVars, secVars>>

JwtNext == CreateToken \/ PresentToken \/ Tick \/ Decode

SpecJwt == JwtInit /\ [][JwtNext]_vars

\* C6: decoding a token right after create_token made it (default expiry)
\* returns a TokenBody with the subject and role it was made with
TokenRoundTrip ==
    (/\ jPc = "decoded"
     /\ minted # Nil
     /\ minted.expiry = DEFAULT_EXPIRY
     /\ clock = minted.at)
    => verdict = TokenBody(minted.sub, minted.role)

\* C7: decode raises BadRequestError exactly for a validly signed token
\* within its window that lacks sub or role, raises UnauthorizedError whenever
\* the signature is wrong or the time is outside [nbf, exp], and a token
\* minted with expiry = -1 is refused with UnauthorizedError
DecodeErrorKinds ==
    jPc = "decoded" =>
        LET good == SignatureOk(token, Secret, DEFAULT_ALGORITHM)
                       /\ WithinWindow(token, clock)
            lacks == ~Has(token.payload, "sub") \/ ~Has(token.payload, "role")
        IN  /\ (verdict = BadRequestError) <=> (good /\ lacks)
            /\ ~good => verdict = UnauthorizedError
            /\ (minted # Nil /\ minted.expiry = -1) => verdict = UnauthorizedError

(***************************************************************************)
(* Sanitizer harness: apply _sanitize_endpoint, then apply it again        *)
(***************************************************************************)
SanInit ==
    /\ sUrl \in SanUrls
    /\ sOnce = <<>>
    /\ sTwice = <<>>
    /\ sPc = "in"
    /\ JwtIdle
    /\ RpcIdle
    /\ SecIdle

SanitizeOnce ==
    /\ sPc = "in"
    /\ sOnce' = _sanitize_endpoint(sUrl)
    /\ sPc' = "once"
    /\ UNCHANGED <<sUrl, sTwice, jwtVars, rpcVars, secVars>>

SanitizeTwice ==
    /\ sPc = "once"
    /\ sTwice' = _sanitize_endpoint(sOnce)
    /\ sPc' = "twice"
    /\ UNCHANGED <<sUrl, sOnce, jwtVars, rpcVars, secVars>>

SanNext == SanitizeOnce \/ SanitizeTwice

SpecSan == SanInit /\ [][SanNext]_vars

\* occurrences a pass of the sanitizer would act on
HasQuery(s) == \E i \in 1..Len(s) : s[i] = "?"
HasUuid(s) == \E i \in 1..Len(s) : UuidAt(s, i)
HasIntParam(s) == \E i \in 1..Len(s) : IntParamAt(s, i)

\* C8: sanitizing a sanitized url changes nothing, and the sanitized url has
\* no query string, no identifier and no numeric segment left to replace
SanitizeIdempotent ==
    /\ sPc = "twice" => sTwice = sOnce
    /\ sPc # "in" => ~HasQuery(sOnce) /\ ~HasUuid(sOnce) /\ ~HasIntParam(sOnce)

\* a url with an identifier and a numeric segment has been sanitized twice
SanitizeIdempotentWitness ==
    /\ sPc = "twice"
    /\ sOnce # sUrl
    /\ HasUuid(sUrl)
    /\ HasIntParam(SubUuid(SplitQuery(sUrl)))

(***************************************************************************)
(* RPC client (crazerace/http/rpc.py)                                      *)
(***************************************************************************)
DEFAULT_RPC_TIMEOUT == 1
HTTP_502_BAD_GATEWAY == 502
REQUEST_ID_HEADER == "X-Request-ID"
JWT_SECRET == Secret

\* new_id(): a freshly generated identifier
NewId == "generated-id"

\* str.lower() on the header names that occur
Lower(name) ==
    CASE name \in { "Content-Type", "content-type", "CONTENT-TYPE" } -> "content-type"
      [] name \in { "X-Request-ID", "x-request-id" } -> "x-request-id"
      [] name = "Authorization" -> "authorization"
      [] name = "Accept" -> "accept"
      [] OTHER -> name

\* indices of the headers in hs whose name is `name` in some letter case
Named(hs, name) == { i \in 1..Len(hs) : Lower(hs[i][1]) = name }

\* Python values passed as body or headers: None, str, dict
PyNone == [ t |-> "NoneType", v |-> <<>> ]
PyStr(chars) == [ t |-> "str", v |-> chars ]
PyDict(items) == [ t |-> "dict", v |-> items ]

\* truth value of a Python value (None, "" and {} are false)
Truthy(b) == b.t # "NoneType" /\ Len(b.v) > 0

\* json.dumps of a str: the characters between double quotes
JsonStr(chars) == <<"\"">> \o chars \o <<"\"">>

\* json.dumps of the items of a dict, from item i on: "key": value, ...
RECURSIVE JsonItems(_, _)
JsonItems(items, i) ==
    IF i > Len(items) THEN <<>>
    ELSE JsonStr(items[i][1]) \o <<":", " ">> \o items[i][2]
            \o (IF i < Len(items) THEN <<",", " ">> ELSE <<>>)
            \o JsonItems(items, i + 1)

\* json.dumps(body), which requests applies to its json= argument
JsonDumps(b) ==
    CASE b.t = "str" -> JsonStr(b.v)
      [] b.t = "dict" -> <<"{">> \o JsonItems(b.v, 1) \o <<"}">>
      [] OTHER -> <<"n", "u", "l", "l">>

\* get_request_id (instrumentation.py:77-83) with fail_if_missing = False
get_request_id(default) == IF ctx # None THEN ctx ELSE default

\* dict[key] = value on an insertion-ordered dict of <<key, value>> pairs
DictSet(d, key, value) ==
    IF \E i \in 1..Len(d) : d[i][1] = key
    THEN [ i \in 1..Len(d) |-> IF d[i][1] = key THEN <<key, value>> ELSE d[i] ]
    ELSE Append(d, <<key, value>>)

\* _should_add_content_type (rpc.py:195-197), compared without lower-casing
ShouldAddContentTypeExactCase(headers, body) ==
    /\ ~\E i \in 1..Len(headers) : headers[i][1] = "Content-Type"
    /\ body # PyNone

\* _should_add_content_type (rpc.py:195-197)
_should_add_content_type(headers, body) ==
    LET lower_case_headers == { Lower(headers[i][1]) : i \in 1..Len(headers) }
    IN  "content-type" \notin lower_case_headers /\ body # PyNone

\* _create_content_type (rpc.py:200-203)
_create_content_type(body) ==
    IF body.t = "str" THEN "text/plain; charset=utf-8"
    ELSE "application/json; charset=utf-8"

\* the Authorization value f"Bearer {auth_token}"; the token itself is kept
\* next to the headers
BearerValue == "Bearer <auth_token>"

\* _create_headers (rpc.py:178-192)
_create_headers(user_id, role, body, headers, request_id) ==
    Let(user_id # None /\ user_id # "", LAMBDA with_auth :
    Let(DictSet(headers, REQUEST_ID_HEADER, request_id), LAMBDA h1 :
    Let(IF with_auth THEN DictSet(h1, "Authorization", BearerValue) ELSE h1, LAMBDA h2 :
    Let(IF _should_add_content_type(h2, body)
        THEN DictSet(h2, "Content-Type", _create_content_type(body))
        ELSE h2, LAMBDA h3 :
        [ headers |-> h3,
          auth_token |-> IF with_auth
                         THEN create_token(user_id, role, JWT_SECRET, DEFAULT_EXPIRY,
                                           DEFAULT_ALGORITHM, clock, clock, clock)
                         ELSE Nil ]))))

\* requests keeps the headers of a request in a case-insensitive dict: a later
\* key that differs only in case replaces the earlier one in place
RECURSIVE CaseInsensitive(_, _, _)
CaseInsensitive(d, i, acc) ==
    IF i > Len(d) THEN acc
    ELSE LET same == { j \in 1..Len(acc) : Lower(acc[j][1]) = Lower(d[i][1]) }
         IN  CaseInsensitive(d, i + 1,
                IF same = {} THEN Append(acc, d[i])
                ELSE [ j \in 1..Len(acc) |-> IF j \in same THEN d[i] ELSE acc[j] ])

\* the request that requests.request(method, url, headers=, timeout=[, json=])
\* puts on the wire (rpc.py:167-171)
WireRequest(method, url, headers, timeout, with_json, body) ==
    Let(CaseInsensitive(headers, 1, <<>>), LAMBDA merged :
        [ method |-> method, url |-> url, timeout |-> timeout,
          headers |-> IF with_json /\ Named(merged, "content-type") = {}
                      THEN Append(merged, <<"Content-Type", "application/json">>)
                      ELSE merged,
          has_body |-> with_json,
          data |-> IF with_json THEN JsonDumps(body) ELSE <<>> ])

\* exceptions
RequestException(response) == [ cls |-> "RequestException", response |-> response ]
Urllib3HTTPError == [ cls |-> "urllib3.HTTPError", response |-> Nil ]

LogLine(level, msg, request_id, status) ==
    [ level |-> level, msg |-> msg, requestId |-> request_id, status |-> status ]

\* _perform_request (rpc.py:164-175): the request sent, and either the
\* response returned or the exception raised, with the log line written
_perform_request(method, url, headers, timeout, body, o) ==
    Let(~(method \in { "get", "delete" } \/ ~Truthy(body)), LAMBDA with_json :
    Let(WireRequest(method, url, headers, timeout, with_json, body), LAMBDA wire :
        CASE o.kind = "response" /\ o.status >= HTTP_400_BAD_REQUEST /\ ~o.json_body ->
               \* res.json() raises requests' JSONDecodeError
               [ wire |-> wire, res |-> Nil, exc |-> RequestException(Nil), log |-> <<>> ]
          [] o.kind = "response" /\ o.status >= HTTP_400_BAD_REQUEST /\ o.json_body ->
               [ wire |-> wire, res |-> o, exc |-> Nil,
                 log |-> << LogLine("warning", "RPC failed: errorResponse",
                                    get_request_id(""), o.status) >> ]
          [] o.kind = "response" /\ o.status < HTTP_400_BAD_REQUEST ->
               [ wire |-> wire, res |-> o, exc |-> Nil, log |-> <<>> ]
          [] o.kind = "TooManyRedirects" ->
               [ wire |-> wire, res |-> Nil,
                 exc |-> RequestException([ kind |-> "response", status |-> o.status,
                                            json_ct |-> FALSE, json_body |-> FALSE ]),
                 log |-> <<>> ]
          [] o.kind \in { "ConnectionError", "Timeout" } ->
               [ wire |-> wire, res |-> Nil, exc |-> RequestException(Nil), log |-> <<>> ]
          [] OTHER ->
               [ wire |-> wire, res |-> Nil, exc |-> Urllib3HTTPError, log |-> <<>> ]))

\* bool(response): requests.Response.__bool__ is Response.ok
ResponseOk(res) == ~(res.status >= 400 /\ res.status < 600)

\* _extract_status_code (rpc.py:240-244); "if e.response" is the truth value
\* of the response object
_extract_status_code(e) ==
    LET default_code == HTTP_502_BAD_GATEWAY
    IN  IF e.cls = "RequestException"
        THEN IF e.response # Nil /\ ResponseOk(e.response)
             THEN e.response.status ELSE default_code
        ELSE default_code

\* Counter.labels(...).inc() / Histogram.labels(...).observe(...)
Inc(metric, label) ==
    IF label \in DOMAIN metric
    THEN [ metric EXCEPT ![label] = @ + 1 ]
    ELSE [ l \in (DOMAIN metric) \cup { label } |->
             IF l = label THEN 1 ELSE metric[l] ]

\* _record_rpc (rpc.py:206-218) applied to the metrics and log in m
_record_rpc(m, method, url, request_id, status) ==
    Let(_sanitize_endpoint(url), LAMBDA endpoint :
    Let(<<method, endpoint, status>>, LAMBDA label :
        [ total |-> Inc(m.total, label),
          latency |-> Inc(m.latency, label),
          log |-> Append(m.log, LogLine(IF status < 400 THEN "info" ELSE "warning",
                                        "RPC done", request_id, status)) ]))

\* RPCResponse.from_response (rpc.py:50-62): the value built, or the
\* JSONDecodeError of res.json()
from_response(res, request_id) ==
    IF res.json_ct /\ ~res.json_body
    THEN [ exc |-> RequestException(Nil), value |-> Nil ]
    ELSE [ exc |-> Nil,
           value |-> [ kind |-> "RPCResponse", status |-> res.status,
                       request_id |-> request_id,
                       body |-> IF res.json_ct THEN "json" ELSE "text" ] ]

RPCError(url, status) == [ kind |-> "RPCError", url |-> url, status |-> status ]

\* the except clause of request (rpc.py:157-161)
Failed(m, method, url, request_id, e) ==
    Let(_extract_status_code(e), LAMBDA code :
    Let(_record_rpc(m, method, url, request_id, code), LAMBDA rec :
        [ total |-> rec.total, latency |-> rec.latency,
          log |-> Append(rec.log, LogLine("warning", "RPC failed", request_id, 0)),
          result |-> RPCError(url, code) ]))

\* the try block of request after _perform_request (rpc.py:154-161)
Completed(m0, method, url, request_id, perf) ==
    IF perf.exc # Nil
    THEN Failed(m0, method, url, request_id, perf.exc)
    ELSE IF ~ResponseOk(perf.res)
    THEN \* res.raise_for_status()
         Failed(m0, method, url, request_id, RequestException(perf.res))
    ELSE Let(_record_rpc(m0, method, url, request_id, perf.res.status), LAMBDA recorded :
         Let(from_response(perf.res, request_id), LAMBDA built :
             IF built.exc # Nil
             THEN Failed(recorded, method, url, request_id, built.exc)
             ELSE [ total |-> recorded.total, latency |-> recorded.latency,
                    log |-> recorded.log, result |-> built.value ]))

\* request (rpc.py:138-161); trace_log is what the caller's decorator logged
request(method, url, user_id, role, headers, timeout, body, o, trace_log) ==
    \E request_id \in { get_request_id(NewId) } :
    \E hdrs \in { IF Truthy(headers) THEN headers.v ELSE <<>> } :
    \E created \in { _create_headers(user_id, role, body, hdrs, request_id) } :
    \E started \in { Append(trace_log, LogLine("info", "RPC initiated", request_id, 0)) } :
    \E perf \in { _perform_request(method, url, created.headers, timeout, body, o) } :
    \E m0 \in { [ total |-> RPCS_TOTAL, latency |-> RPC_LATENCY,
                  log |-> started \o perf.log ] } :
    \E done \in { Completed(m0, method, url, request_id, perf) } :
        /\ call' = [ method |-> method, url |-> url, user_id |-> user_id,
                     role |-> role, headers |-> headers, timeout |-> timeout,
                     body |-> body, request_id |-> request_id ]
        /\ sent' = [ request |-> perf.wire, request_headers |-> created.headers,
                     auth_token |-> created.auth_token ]
        /\ resp' = o
        /\ result' = done.result
        /\ log' = done.log
        /\ RPCS_TOTAL' = done.total
        /\ RPC_LATENCY' = done.latency
        /\ calls' = calls + 1
        /\ rPc' = "done"
        /\ UNCHANGED <<ctx, sanVars, jwtVars, secVars>>

\* the line the trace("rpc") decorator logs (instrumentation.py:86-97)
trace(name) == << LogLine("info", name, get_request_id(""), 0) >>

\* the dispatch operations (rpc.py:80-135)
get(url, user_id, role, headers, timeout, o) ==
    request("get", url, user_id, role, headers, timeout, PyNone, o, trace("rpc.get"))

put(url, user_id, role, headers, timeout, body, o) ==
    request("put", url, user_id, role, headers, timeout, body, o, trace("rpc.put"))

post(url, user_id, role, headers, timeout, body, o) ==
    request("post", url, user_id, role, headers, timeout, body, o, trace("rpc.post"))

patch(url, user_id, role, headers, timeout, body, o) ==
    request("patch", url, user_id, role, headers, timeout, body, o, trace("rpc.patch"))

delete(url, user_id, role, headers, timeout, o) ==
    request("delete", url, user_id, role, headers, timeout, PyNone, o, trace("rpc.delete"))

(***************************************************************************)
(* Inputs of the RPC client                                                *)
(***************************************************************************)
\* urls of one endpoint that differ in a numeric segment, a query string and
\* an identifier segment in lower and in upper case
UrlFamily ==
    { <<"/", "c", "/", "1", "2">>,
      <<"/", "c", "/", "7", "?", "x">>,
      <<"/", "c", "/">> \o UuidLower,
      <<"/", "c", "/">> \o UuidUpper }

UserIds == { None, "user-1" }

CallerHeaders ==
    { PyNone, PyDict(<<>>),
      PyDict(<< <<"content-type", "text/csv">> >>),
      PyDict(<< <<"CONTENT-TYPE", "text/csv">> >>),
      PyDict(<< <<"Content-Type", "text/csv">>, <<"Accept", "text/csv">> >>),
      PyDict(<< <<"x-request-id", "caller-id">> >>),
      PyDict(<< <<"X-Request-ID", "caller-id">> >>) }

Bodies ==
    { PyNone, PyStr(<<>>), PyStr(<<"h", "i">>), PyDict(<<>>),
      PyDict(<< <<(<<"a">>), (<<"1">>)>> >>) }

Response(status, json_ct, json_body) ==
    [ kind |-> "response", status |-> status, json_ct |-> json_ct, json_body |-> json_body ]

\* how a transport attempt can end: a response (status, JSON content type or
\* not, body that parses as JSON or not), or an exception
Outcomes ==
    { Response(st, c[1], c[2]) :
        st \in { 200, 404, 500 },
        c \in { <<TRUE, TRUE>>, <<TRUE, FALSE>>, <<FALSE, FALSE>> } }
    \cup { [ kind |-> "ConnectionError" ], [ kind |-> "Timeout" ],
           [ kind |-> "urllib3.HTTPError" ],
           [ kind |-> "TooManyRedirects", status |-> 302 ] }

(***************************************************************************)
(* One dispatch call, in or outside an in-flight request                   *)
(***************************************************************************)
RpcInit ==
    /\ ctx \in { None, "ctx-id" }
    /\ call = Nil
    /\ sent = Nil
    /\ resp = Nil
    /\ result = Nil
    /\ log = <<>>
    /\ RPCS_TOTAL = EmptyMetric
    /\ RPC_LATENCY = EmptyMetric
    /\ calls = 0
    /\ rPc = "idle"
    /\ SanIdle
    /\ JwtIdle
    /\ SecIdle

Get ==
    /\ rPc = "idle"
    /\ \E url \in UrlFamily, user_id \in UserIds, headers \in CallerHeaders,
          o \in Outcomes :
          get(url, user_id, "SYSTEM", headers, DEFAULT_RPC_TIMEOUT, o)

Put ==
    /\ rPc = "idle"
    /\ \E url \in UrlFamily, user_id \in UserIds, headers \in CallerHeaders,
          body \in Bodies, o \in Outcomes :
          put(url, user_id, "SYSTEM", headers, DEFAULT_RPC_TIMEOUT, body, o)

Post ==
    /\ rPc = "idle"
    /\ \E url \in UrlFamily, user_id \in UserIds, headers \in CallerHeaders,
          body \in Bodies, o \in Outcomes :
          post(url, user_id, "SYSTEM", headers, DEFAULT_RPC_TIMEOUT, body, o)

Patch ==
    /\ rPc = "idle"
    /\ \E url \in UrlFamily, user_id \in UserIds, headers \in CallerHeaders,
          body \in Bodies, o \in Outcomes :
          patch(url, user_id, "SYSTEM", headers, DEFAULT_RPC_TIMEOUT, body, o)

Delete ==
    /\ rPc = "idle"
    /\ \E url \in UrlFamily, user_id \in UserIds, headers \in CallerHeaders,
          o \in Outcomes :
          delete(url, user_id, "SYSTEM", headers, DEFAULT_RPC_TIMEOUT, o)

RpcNext == Get \/ Put \/ Post \/ Patch \/ Delete

SpecRpc == RpcInit /\ [][RpcNext]_vars

\* number of samples a metric holds
RECURSIVE SumOver(_, _)
SumOver(metric, labels) ==
    IF labels = {} THEN 0
    ELSE LET l == CHOOSE x \in labels : TRUE
         IN  metric[l] + SumOver(metric, labels \ { l })

Samples(metric) == SumOver(metric, DOMAIN metric)

\* the transport attempt failed: no response, a response that ends the
\* redirects, or a response with an error status
TransportFailed ==
    resp.kind # "response" \/ resp.status >= HTTP_400_BAD_REQUEST

\* C1: when a call fails, the status of the raised RPCError is the status of
\* the response if one was received, and 502 if none was
ErrorStatusIsResponseStatus ==
    (rPc = "done" /\ TransportFailed /\ result.kind = "RPCError") =>
        result.status = IF resp.kind \in { "response", "TooManyRedirects" }
                        THEN resp.status ELSE 502

\* C2: a call that ended in a response, a connection error or a timeout has
\* recorded exactly one sample, labelled with the status it returned or raised
OneSamplePerCall ==
    (rPc = "done" /\ resp.kind \in { "response", "ConnectionError", "Timeout" }) =>
        /\ Samples(RPCS_TOTAL) = 1
        /\ Samples(RPC_LATENCY) = 1
        /\ \A l \in DOMAIN RPCS_TOTAL : l[3] = result.status
        /\ \A l \in DOMAIN RPC_LATENCY : l[3] = result.status

\* the log lines written by request and its helpers (not by the decorator)
CallLogLines ==
    { i \in 1..Len(log) :
        log[i].msg \in { "RPC initiated", "RPC failed: errorResponse",
                         "RPC done", "RPC failed" } }

\* C3: the request sent carries exactly one correlation-id header, holding
\* the id of the in-flight request if there is one and a generated id
\* otherwise; the call ends in a response or an RPCError; the call's log
\* lines and the returned metadata carry that same id
OneCorrelationId ==
    rPc = "done" =>
        LET id == IF ctx # None THEN ctx ELSE NewId
            hs == sent.request.headers
        IN  /\ Cardinality(Named(hs, "x-request-id")) = 1
            /\ \A i \in Named(hs, "x-request-id") : hs[i][2] = id
            /\ result.kind \in { "RPCResponse", "RPCError" }
            /\ \A i \in CallLogLines : log[i].requestId = id
            /\ result.kind = "RPCResponse" => result.request_id = id

\* the headers the caller passed
Given == IF Truthy(call.headers) THEN call.headers.v ELSE <<>>

\* the content type among the headers hs is the one decided for the call:
\* the caller's own if there is one in any letter case, else none for a None
\* body, text/plain for a str body and application/json for any other body
ContentTypeDecided(hs) ==
    LET cts == Named(hs, "content-type")
    IN  IF Named(Given, "content-type") # {}
        THEN /\ Cardinality(cts) = 1
             /\ \A i \in cts, j \in Named(Given, "content-type") : hs[i] = Given[j]
        ELSE IF call.body = PyNone
        THEN cts = {}
        ELSE /\ Cardinality(cts) = 1
             /\ \A i \in cts :
                   hs[i] = << "Content-Type",
                              IF call.body.t = "str"
                              THEN "text/plain; charset=utf-8"
                              ELSE "application/json; charset=utf-8" >>

\* C4: a content-type header of the caller, in any letter case, is sent
\* unchanged and alone; without one, a call without body sends no
\* Content-Type, a str body sends text/plain and any other body
\* application/json, both with charset=utf-8; this holds of the headers
\* handed to the transport and of the headers it sends
ContentTypeDecision ==
    rPc = "done" =>
        /\ ContentTypeDecided(sent.request_headers)
        /\ ContentTypeDecided(sent.request.headers)

\* a post with a str body whose caller set content-type in lower case has
\* been sent
ContentTypeDecisionWitness ==
    /\ rPc = "done"
    /\ call.method = "post"
    /\ call.body = PyStr(<<"h", "i">>)
    /\ Named(Given, "content-type") # {}
    /\ \A j \in Named(Given, "content-type") : Given[j][1] = "content-type"

\* C5: get and delete send no body; a None body is not sent; put, post and
\* patch send a present str body as it is and any other present body as JSON
\* (data is the byte content of the request; no body is empty content)
BodyOnWire ==
    rPc = "done" =>
        LET r == sent.request
        IN  /\ call.method \in { "get", "delete" } => r.data = <<>>
            /\ call.body = PyNone => r.data = <<>>
            /\ (call.method \in { "put", "post", "patch" } /\ call.body # PyNone) =>
                  r.data = IF call.body.t = "str" THEN call.body.v
                           ELSE JsonDumps(call.body)

\* positions in the log of the lines with message msg
LinesOf(msg) == { i \in 1..Len(log) : log[i].msg = msg }

\* C11: whatever the outcome, the call has logged exactly one "RPC initiated"
\* line and exactly one "RPC done" line, the first before the second; the
\* "RPC done" line carries the status the call returned or raised and the
\* call's correlation id, at warning severity if that status is >= 400 and at
\* info severity otherwise; the "RPC initiated" line carries the same id
InitiatedThenDone ==
    rPc = "done" =>
        /\ Cardinality(LinesOf("RPC initiated")) = 1
        /\ Cardinality(LinesOf("RPC done")) = 1
        /\ \A i \in LinesOf("RPC initiated") :
              /\ log[i].level = "info"
              /\ log[i].requestId = call.request_id
              /\ \A j \in LinesOf("RPC done") : i < j
        /\ \A j \in LinesOf("RPC done") :
              /\ log[j].status = result.status
              /\ log[j].requestId = call.request_id
              /\ log[j].level = IF result.status >= 400 THEN "warning" ELSE "info"

(***************************************************************************)
(* A sequence of dispatch calls to the urls of one endpoint                *)
(***************************************************************************)
FamilyOutcomes ==
    { Response(200, FALSE, FALSE), Response(404, TRUE, TRUE),
      [ kind |-> "ConnectionError" ] }

FamilyGet ==
    /\ calls < MaxCalls
    /\ \E url \in UrlFamily, o \in FamilyOutcomes :
          get(url, None, "SYSTEM", PyNone, DEFAULT_RPC_TIMEOUT, o)

FamilyPost ==
    /\ calls < MaxCalls
    /\ \E url \in UrlFamily, o \in FamilyOutcomes :
          post(url, None, "SYSTEM", PyNone, DEFAULT_RPC_TIMEOUT, PyNone, o)

FamilyNext == FamilyGet \/ FamilyPost

SpecFamily == RpcInit /\ [][FamilyNext]_vars

\* C9: whatever calls were made to the urls of the endpoint, the call counter
\* holds one series per (method, status) pair
OneSeriesPerMethodStatus ==
    \A l1 \in DOMAIN RPCS_TOTAL, l2 \in DOMAIN RPCS_TOTAL :
        (l1[1] = l2[1] /\ l1[3] = l2[3]) => l1 = l2

(***************************************************************************)
(* The sanitizer as described: only whole numeric segments are replaced    *)
(***************************************************************************)
\* "/" followed by digits up to the next "/" or the end of s, at position i
IntSegmentAt(s, i) ==
    /\ IntParamAt(s, i)
    /\ LET e == DigitsEnd(s, i + 1) IN e > Len(s) \/ s[e] = "/"

RECURSIVE SubIntSegmentsFrom(_, _)
SubIntSegmentsFrom(s, i) ==
    LET starts == { j \in i..Len(s) : IntSegmentAt(s, j) }
    IN  IF starts = {} THEN SubSeq(s, i, Len(s))
        ELSE LET j == Least(starts)
             IN  SubSeq(s, i, j - 1) \o SlashIdToken
                    \o SubIntSegmentsFrom(s, DigitsEnd(s, j + 1))

\* C10: the sanitized url is the url up to the first "?", with every
\* identifier replaced by <id> and every path segment made of digits only
\* replaced by /<id>; a segment that only starts with digits is unchanged
SanitizeOnlyWholeSegments ==
    sPc # "in" => sOnce = SubIntSegmentsFrom(SubUuid(SplitQuery(sUrl)), 1)

(***************************************************************************)
(* Secured handlers (crazerace/http/security.py)                           *)
(***************************************************************************)
HTTP_403_FORBIDDEN == 403

ForbiddenError == [ kind |-> "ForbiddenError", status |-> HTTP_403_FORBIDDEN ]

\* reading an attribute that was never set on the flask request
AttributeError == [ kind |-> "AttributeError" ]

\* an Authorization header value: a scheme prefix followed by credentials,
\* which are an encoded token or nothing
AuthHeader(scheme, credentials) ==
    [ t |-> "str", scheme |-> scheme, credentials |-> credentials ]

\* truth value of request.headers.get("Authorization")
HeaderTruthy(h) == h.t # "NoneType" /\ (h.scheme # "" \/ h.credentials # Nil)

\* auth_header.replace("Bearer ", ""); an encoded token contains no space
ReplaceBearer(h) ==
    [ h EXCEPT !.scheme = IF @ = "Bearer " THEN "" ELSE @ ]

\* setattr on the request
SetAttr(attrs, name, value) ==
    [ n \in (DOMAIN attrs) \cup { name } |-> IF n = name THEN value ELSE attrs[n] ]

\* _get_token_header (security.py:35-39)
_get_token_header(rq) ==
    LET auth_header == rq.authorization
    IN  IF ~HeaderTruthy(auth_header)
        THEN [ exc |-> BadRequestError, value |-> Nil ]
        ELSE [ exc |-> Nil, value |-> ReplaceBearer(auth_header) ]

\* jwt.decode(encoded_token, secret) (security.py:29): a string that is not
\* an encoded token fails in PyJWT with DecodeError, a PyJWTError
jwt_decode(encoded_token, secret, now) ==
    IF encoded_token.scheme # "" \/ encoded_token.credentials = Nil
    THEN UnauthorizedError
    ELSE decode(encoded_token.credentials, secret, DEFAULT_ALGORITHM, now)

\* value in roles, for a list of roles
InList(value, roles) == \E i \in 1..Len(roles) : roles[i] = value

\* _authorize (security.py:27-32): the token returned or the exception
\* raised; request.role is read from the request before `not roles` is tested
_authorize(rq, secret, roles, now) ==
    Let(_get_token_header(rq), LAMBDA encoded_token :
        IF encoded_token.exc # Nil
        THEN [ exc |-> encoded_token.exc, token |-> Nil ]
        ELSE Let(jwt_decode(encoded_token.value, secret, now), LAMBDA tok :
             IF tok.kind # "TokenBody"
             THEN [ exc |-> tok, token |-> Nil ]
             ELSE IF "role" \notin DOMAIN rq.attrs
             THEN [ exc |-> AttributeError, token |-> Nil ]
             ELSE IF ~InList(rq.attrs["role"], roles) \/ Len(roles) = 0
             THEN [ exc |-> ForbiddenError, token |-> Nil ]
             ELSE [ exc |-> Nil, token |-> tok ]))

\* decorated (security.py:16-20) of a handler wrapped by secured(secret, roles)
secured(secret, roles) ==
    \E authorized \in { _authorize(req, secret, roles, clock) } :
        /\ guard' = [ secret |-> secret, roles |-> roles ]
        /\ IF authorized.exc # Nil
           THEN /\ raised' = authorized.exc
                /\ handler_ran' = FALSE
                /\ req' = req
           ELSE /\ raised' = Nil
                /\ handler_ran' = TRUE
                /\ req' = [ req EXCEPT !.attrs =
                              SetAttr(SetAttr(@, "user_id", authorized.token.subject),
                                      "role", authorized.token.role) ]

(***************************************************************************)
(* A request arrives and is routed to a secured handler                    *)
(***************************************************************************)
\* role lists handlers are secured with: the default, one role, two roles
RoleLists == { <<>>, <<"ADMIN">>, <<"ADMIN", "SYSTEM">>, <<"USER">> }

\* tokens of create_token, made now by a holder of the secret or of another
MintedTokens ==
    { create_token(sub, role, k, DEFAULT_EXPIRY, DEFAULT_ALGORITHM,
                   clock, clock, clock) :
        sub \in Subjects, role \in Roles \cup { "USER" }, k \in { Secret, OtherSecret } }

AuthHeaders ==
    { NoHeader, AuthHeader("", Nil), AuthHeader("Bearer ", Nil) }
    \cup { AuthHeader(scheme, t) :
             scheme \in { "Bearer ", "", "Basic " },
             t \in MintedTokens \cup ForeignTokens }

SecInit ==
    /\ req = [ authorization |-> NoHeader, attrs |-> NoAttrs ]
    /\ guard = Nil
    /\ handler_ran = FALSE
    /\ raised = Nil
    /\ aPc = "idle"
    /\ SanIdle
    /\ JwtIdle
    /\ RpcIdle

\* flask builds the request object: headers from the wire, no attribute set
Receive ==
    /\ aPc = "idle"
    /\ \E authorization \in AuthHeaders :
          req' = [ authorization |-> authorization, attrs |-> NoAttrs ]
    /\ aPc' = "received"
    /\ UNCHANGED <<guard, handler_ran, raised, sanVars, jwtVars, rpcVars>>

\* the secured handler is called
Handle ==
    /\ aPc = "received"
    /\ \E roles \in RoleLists : secured(Secret, roles)
    /\ aPc' = "done"
    /\ UNCHANGED <<sanVars, jwtVars, rpcVars>>

SecNext == Receive \/ Handle

SpecSec == SecInit /\ [][SecNext]_vars

\* what verifying the bearer token of the request under the guard's secret
\* gives
Verified ==
    jwt_decode(ReplaceBearer(req.authorization), guard.secret, clock)

\* the request carries an Authorization header whose token verifies and
\* whose role is one of the guard's roles
Entitled ==
    /\ HeaderTruthy(req.authorization)
    /\ Verified.kind = "TokenBody"
    /\ InList(Verified.role, guard.roles)

\* C12: a handler secured with a non-empty list of roles runs if and only if
\* the request carries an Authorization header whose bearer token verifies
\* under the secret and names a role of the list; when it runs, the request's
\* user_id and role are the token's subject and role; when it does not, a
\* BadRequestError, UnauthorizedError or ForbiddenError was raised
HandlerRunsIffEntitled ==
    (aPc = "done" /\ Len(guard.roles) > 0) =>
        /\ handler_ran <=> Entitled
        /\ handler_ran =>
              /\ DOMAIN req.attrs = { "user_id", "role" }
              /\ req.attrs["user_id"] = Verified.subject
              /\ req.attrs["role"] = Verified.role
        /\ ~handler_ran =>
              raised.kind \in { "BadRequestError", "UnauthorizedError", "ForbiddenError" }

====
